---- MODULE Spec2Model ----
(***************************************************************************)
(* Japanese national holidays of one year: the rule table, the resolution  *)
(* of relative rules ("Nth weekday of a month"), the equinox days of       *)
(* 2020..2050, the substitute-holiday adjustment and the final sort.       *)
(*                                                                         *)
(* Holiday names are written in romaji, the module being ASCII:            *)
(*   Gantan, SeijinNoHi, KenkokuKinenNoHi, TennoTanjobi, ShunbunNoHi,      *)
(*   ShowaNoHi, KenpoKinenbi, MidoriNoHi, KodomoNoHi, UmiNoHi, YamaNoHi,   *)
(*   KeiroNoHi, ShubunNoHi, SportsNoHi, BunkaNoHi, KinroKanshaNoHi;        *)
(*   FurikaeKyujitsu is the prefix of a substitute holiday's name.         *)
(* A name is the sequence of the parts format!() joins: a substitute's     *)
(* name is <<"FurikaeKyujitsu">> \o (the name it embeds).                  *)
(***************************************************************************)
EXTENDS Integers, Sequences, FiniteSets, TLC

VARIABLES
    pc,                 \* position: idle, pick, outer, run, collide, sort, done
    call,               \* the function under way: none, holiday, adjust, relative
    tz,                 \* the host's time zone, which chrono's Local reads
    year,               \* holiday's argument
    data,               \* the Vec<Holiday> (m in holiday, data in substitute_adjustment)
    i,                  \* substitute_adjustment's index (0-based, as in the code)
    last_holiday_date,  \* substitute_adjustment's local
    sub_date,           \* substitute_adjustment's local
    input,              \* history: the list as substitute_adjustment received it
    trigger,            \* history: the index whose date line 110 found a Sunday (-1: none yet)
    rel                 \* get_relative_date's arguments and outcome, when called alone

vars == <<pc, call, tz, year, data, i, last_holiday_date, sub_date, input, trigger, rel>>

----------------------------------------------------------------------------
(* Bounds of the model.                                                    *)

\* holiday is called with every year of FirstYear .. FirstYear + YearSpan
YearSpan == 36
\* substitute_adjustment is called alone on lists of dates of a window of
\* WindowDays consecutive days, starting on a Saturday
WindowDays == 10
\* ... on every list of at most MaxLen entries, in any order, dates repeated or not
MaxLen == 3
\* get_relative_date is called alone with occurrences 0 .. MaxOccurrence
MaxOccurrence == 6
\* ... and with the years FirstYear .. FirstYear + RelYearSpan
RelYearSpan == 12

----------------------------------------------------------------------------
(* The calendar: chrono's NaiveDate as the number of days from 0001-01-01  *)
(* (day 1, a Monday), the proleptic Gregorian calendar.                    *)

IsLeap(y) == (y % 4 = 0 /\ y % 100 # 0) \/ y % 400 = 0

DaysInMonth(y, m) ==
    IF m = 2 THEN (IF IsLeap(y) THEN 29 ELSE 28)
    ELSE IF m \in {4, 6, 9, 11} THEN 30 ELSE 31

DaysBeforeMonth(y, m) ==
    <<0, 31, 59, 90, 120, 151, 181, 212, 243, 273, 304, 334>>[m]
        + (IF m > 2 /\ IsLeap(y) THEN 1 ELSE 0)

DaysBeforeYear(y) ==
    365 * (y - 1) + ((y - 1) \div 4) - ((y - 1) \div 100) + ((y - 1) \div 400)

\* NaiveDate::parse_from_str("Y/m/d", "%Y/%m/%d"): the date of a year, month, day
from_ymd(y, m, d) == DaysBeforeYear(y) + DaysBeforeMonth(y, m) + d

\* a mutant of next_day: the day is not moved on
next_day_stuck(date) == date

\* date + Duration::days(1) on a NaiveDate
next_day(date) == date + 1

\* Datelike::weekday
weekday(date) == <<"sun", "mon", "tue", "wed", "thu", "fri", "sat">>[(date % 7) + 1]

----------------------------------------------------------------------------
(* The embedded resources. resources/base.csv and                          *)
(* resources/equinox_base_dates.csv are not among the source files; their  *)
(* rows are taken from the specification (the rule table of the National   *)
(* Holidays Law, the equinox days of 2020..2050) and from the 2024 output  *)
(* the tests pin. A row of base.csv is <<name, date, relative, condition>>,*)
(* a date <<month, day>> (or <<>> when the field is empty), a condition    *)
(* <<month, n, weekday>> ("Month:N:Weekday"; <<>> when the field is empty),*)
(* with month and weekday names already trimmed and lower-cased.           *)

BASE_DATA ==
    << <<"Gantan",           <<1, 1>>,   FALSE, <<>> >>,
       <<"SeijinNoHi",       <<>>,       TRUE,  <<"jan", 2, "mon">> >>,
       <<"KenkokuKinenNoHi", <<2, 11>>,  FALSE, <<>> >>,
       <<"TennoTanjobi",     <<2, 23>>,  FALSE, <<>> >>,
       <<"ShowaNoHi",        <<4, 29>>,  FALSE, <<>> >>,
       <<"KenpoKinenbi",     <<5, 3>>,   FALSE, <<>> >>,
       <<"MidoriNoHi",       <<5, 4>>,   FALSE, <<>> >>,
       <<"KodomoNoHi",       <<5, 5>>,   FALSE, <<>> >>,
       <<"UmiNoHi",          <<>>,       TRUE,  <<"jul", 3, "mon">> >>,
       <<"YamaNoHi",         <<8, 11>>,  FALSE, <<>> >>,
       <<"KeiroNoHi",        <<>>,       TRUE,  <<"sep", 3, "mon">> >>,
       <<"SportsNoHi",       <<>>,       TRUE,  <<"oct", 2, "mon">> >>,
       <<"BunkaNoHi",        <<11, 3>>,  FALSE, <<>> >>,
       <<"KinroKanshaNoHi",  <<11, 23>>, FALSE, <<>> >> >>

\* a row of equinox_base_dates.csv is <<year, spring, autumn>>
BASE_EQUINOX ==
    << <<2020, <<3, 20>>, <<9, 22>>>>, <<2021, <<3, 20>>, <<9, 23>>>>, <<2022, <<3, 21>>, <<9, 23>>>>,
       <<2023, <<3, 21>>, <<9, 23>>>>, <<2024, <<3, 20>>, <<9, 22>>>>, <<2025, <<3, 20>>, <<9, 23>>>>,
       <<2026, <<3, 20>>, <<9, 23>>>>, <<2027, <<3, 21>>, <<9, 23>>>>, <<2028, <<3, 20>>, <<9, 22>>>>,
       <<2029, <<3, 20>>, <<9, 23>>>>, <<2030, <<3, 20>>, <<9, 23>>>>, <<2031, <<3, 21>>, <<9, 23>>>>,
       <<2032, <<3, 20>>, <<9, 22>>>>, <<2033, <<3, 20>>, <<9, 23>>>>, <<2034, <<3, 20>>, <<9, 23>>>>,
       <<2035, <<3, 21>>, <<9, 23>>>>, <<2036, <<3, 20>>, <<9, 22>>>>, <<2037, <<3, 20>>, <<9, 23>>>>,
       <<2038, <<3, 20>>, <<9, 23>>>>, <<2039, <<3, 21>>, <<9, 23>>>>, <<2040, <<3, 20>>, <<9, 22>>>>,
       <<2041, <<3, 20>>, <<9, 23>>>>, <<2042, <<3, 20>>, <<9, 23>>>>, <<2043, <<3, 21>>, <<9, 23>>>>,
       <<2044, <<3, 20>>, <<9, 22>>>>, <<2045, <<3, 20>>, <<9, 22>>>>, <<2046, <<3, 20>>, <<9, 23>>>>,
       <<2047, <<3, 21>>, <<9, 23>>>>, <<2048, <<3, 20>>, <<9, 22>>>>, <<2049, <<3, 20>>, <<9, 22>>>>,
       <<2050, <<3, 20>>, <<9, 23>>>> >>

\* timebase::get_schedule: one BaseHolyday per row
get_schedule ==
    [k \in 1 .. Len(BASE_DATA) |->
        [name      |-> <<BASE_DATA[k][1]>>,
         date      |-> BASE_DATA[k][2],
         relative  |-> BASE_DATA[k][3],
         condition |-> IF BASE_DATA[k][4] = <<>> THEN <<>>
                       ELSE [month   |-> BASE_DATA[k][4][1],
                             n       |-> BASE_DATA[k][4][2],
                             weekday |-> BASE_DATA[k][4][3]]]]

\* timebase::get_equinox_dates: one Equinox per row, its two days named
get_equinox_dates ==
    [k \in 1 .. Len(BASE_EQUINOX) |->
        [year    |-> BASE_EQUINOX[k][1],
         equinox |-> << [name |-> <<"ShunbunNoHi">>, date |-> BASE_EQUINOX[k][2]],
                        [name |-> <<"ShubunNoHi">>,  date |-> BASE_EQUINOX[k][3]] >>]]

----------------------------------------------------------------------------
(* Month and weekday names.                                                *)

Months == <<"jan", "feb", "mar", "apr", "may", "jun",
            "jul", "aug", "sep", "oct", "nov", "dec">>

Weekdays == {"mon", "tue", "wed", "thu", "fri", "sat", "sun"}

\* get_month_num_from_string, on a trimmed and lower-cased name: 0 for None
get_month_num_from_string(char) ==
    IF \E k \in 1 .. 12 : Months[k] = char
    THEN CHOOSE k \in 1 .. 12 : Months[k] = char
    ELSE 0

\* get_weekday_from_string, on a trimmed and lower-cased name: "none" for None
get_weekday_from_string(char) == IF char \in Weekdays THEN char ELSE "none"

----------------------------------------------------------------------------
(* chrono's Local: the time zone of the host. A DateTime<Local> of the     *)
(* scanned month is held as the hours elapsed since the local midnight     *)
(* that starts the month; adding Duration::days(1) adds 24 elapsed hours,  *)
(* and the local fields are read back through the zone's offset.           *)
(* Asia/Tokyo has no offset transition in these years. America/New_York    *)
(* moves its clock forward by an hour at 02:00 on the second Sunday of     *)
(* March and back by an hour at 02:00 on the first Sunday of November.     *)

Zones == {"Asia/Tokyo", "America/New_York"}

NthSunday(y, m, k) ==
    CHOOSE d \in 1 .. DaysInMonth(y, m) :
        weekday(from_ymd(y, m, d)) = "sun" /\ (d - 1) \div 7 = k - 1

\* the zone's transition in month m of year y: the day of the month it
\* falls on (0: none) and the hours the local clock moves by
ZoneTransition(z, y, m) ==
    IF z = "America/New_York" /\ m = 3
    THEN [day |-> NthSunday(y, m, 2), shift |-> 1]
    ELSE IF z = "America/New_York" /\ m = 11
    THEN [day |-> NthSunday(y, m, 1), shift |-> -1]
    ELSE [day |-> 0, shift |-> 0]

\* the local clock, in hours since the month's first local midnight, t
\* elapsed hours after it
LocalClock(z, y, m, t) ==
    LET tr == ZoneTransition(z, y, m)
    IN  IF tr.day # 0 /\ t >= 24 * (tr.day - 1) + 2 THEN t + tr.shift ELSE t

\* Datelike::day of the DateTime<Local>; past the month's last day it is a
\* day of the next month
local_day(z, y, m, t) == (LocalClock(z, y, m, t) \div 24) + 1

local_hour(z, y, m, t) == LocalClock(z, y, m, t) % 24

\* day + Duration::days(1) on a DateTime<Local>
plus_one_day(t) == t + 24

----------------------------------------------------------------------------
(* calendar::get_relative_date                                             *)

\* the while loop of lines 193-198: from the DateTime t, the DateTimes of
\* the month whose weekday is w, in the order the loop finds them
RECURSIVE scan_month(_, _, _, _, _, _)
scan_month(z, y, m, w, t, dates) ==
    IF local_day(z, y, m, t) <= DaysInMonth(y, m)
    THEN scan_month(z, y, m, w, plus_one_day(t),
             IF weekday(from_ymd(y, m, local_day(z, y, m, t))) = w
             THEN Append(dates, t) ELSE dates)
    ELSE dates

\* a mutant of nth_index: dates[n], the index not brought down by one
nth_index_off_by_one(n, len) == IF 0 <= n /\ n < len THEN n + 1 ELSE 0

\* line 200, dates[n as usize - 1]: the index of the element returned, 0
\* when the index is out of range (n = 0 included) and the program panics
nth_index(n, len) == IF 1 <= n /\ n <= len THEN n ELSE 0

\* the outcome: Some(DateTime), given by its local month, day and hour, or a
\* panic (an unwrap of None at lines 187-188, an index out of range at line 200)
Panic == [kind |-> "panic", month |-> 0, day |-> 0, hour |-> 0]

get_relative_date(z, y, condition) ==
    LET month == get_month_num_from_string(condition.month)
        wd    == get_weekday_from_string(condition.weekday)
    IN  IF month = 0 \/ wd = "none" THEN Panic
        ELSE LET dates == scan_month(z, y, month, wd, 0, <<>>)
                 k     == nth_index(condition.n, Len(dates))
             IN  IF k = 0 THEN Panic
                 ELSE [kind  |-> "some",
                       month |-> month,
                       day   |-> local_day(z, y, month, dates[k]),
                       hour  |-> local_hour(z, y, month, dates[k])]

----------------------------------------------------------------------------
(* calendar::prepara and calendar::pick_exuinox_from_year                  *)

Holiday(name, date, substitute) ==
    [name |-> name, date |-> date, substitute |-> substitute]

\* one entry of prepara's loop: the Holiday pushed, or a panic when an
\* unwrap fails. A relative date is formatted as %Y-%m-%d and parsed back,
\* which keeps the local year, month and day and drops the time of day.
Pushed(h) == [kind |-> "ok", value |-> h]
Unwound == [kind |-> "panic", value |-> Holiday(<<>>, 0, FALSE)]

prepara_entry(z, y, d) ==
    IF d.relative
    THEN IF d.condition = <<>> THEN Unwound
         ELSE LET r == get_relative_date(z, y, d.condition)
              IN  IF r.kind = "panic" THEN Unwound
                  ELSE Pushed(Holiday(d.name, from_ymd(y, r.month, r.day), FALSE))
    ELSE IF d.date = <<>> THEN Unwound
         ELSE IF d.date[2] > DaysInMonth(y, d.date[1]) THEN Unwound
         ELSE Pushed(Holiday(d.name, from_ymd(y, d.date[1], d.date[2]), FALSE))

\* prepara: the list in the order of the rule table, or a panic
prepara(z, y) ==
    LET days == [k \in 1 .. Len(get_schedule) |-> prepara_entry(z, y, get_schedule[k])]
    IN  IF \E k \in 1 .. Len(days) : days[k].kind = "panic"
        THEN [kind |-> "panic", days |-> <<>>]
        ELSE [kind |-> "ok", days |-> [k \in 1 .. Len(days) |-> days[k].value]]

\* a mutant of out_of_range: the first year of the range left out
out_of_range_from_2021(y) == y <= 2020 \/ y > 2050

\* line 137: the years without equinox days
out_of_range(y) == y < 2020 \/ y > 2050

pick_exuinox_from_year(y) ==
    IF out_of_range(y) THEN <<>>
    ELSE IF \E k \in 1 .. Len(get_equinox_dates) : get_equinox_dates[k].year = y
    THEN LET k == CHOOSE j \in 1 .. Len(get_equinox_dates) :
                      /\ get_equinox_dates[j].year = y
                      /\ \A l \in 1 .. j - 1 : get_equinox_dates[l].year # y
             v == get_equinox_dates[k]
         IN  [x \in 1 .. Len(v.equinox) |->
                 Holiday(v.equinox[x].name,
                         from_ymd(y, v.equinox[x].date[1], v.equinox[x].date[2]),
                         FALSE)]
    ELSE <<>>

----------------------------------------------------------------------------
(* calendar::substitute_adjustment, its parts                              *)

\* line 110
is_sunday(h) == weekday(h.date) = "sun"

\* lines 112-113: there is a next entry and its date is the day after last
run_continues(d, idx, last) ==
    idx + 1 < Len(d) /\ d[idx + 2].date = next_day(last)

\* a mutant of occupied: only the entry before the new one is looked at
occupied_last_only(d, date) == d # <<>> /\ d[Len(d)].date = date

\* line 121: data.iter().any(|h| h.date == sub_date)
occupied(d, date) == \E k \in 1 .. Len(d) : d[k].date = date

\* lines 125-129: the entry pushed, named after data[i]
substitute_for(h, date) == Holiday(<<"FurikaeKyujitsu">> \o h.name, date, TRUE)

\* a mutant of next_index: the index moved on by two
next_index_by_two(idx) == idx + 2

\* line 131
next_index(idx) == idx + 1

\* the function as a whole, from index idx on: the list it leaves
RECURSIVE run_end(_, _, _)
run_end(d, idx, last) ==
    IF run_continues(d, idx, last)
    THEN run_end(d, idx + 1, d[idx + 2].date)
    ELSE <<idx, last>>

RECURSIVE free_date(_, _)
free_date(d, date) == IF occupied(d, date) THEN free_date(d, next_day(date)) ELSE date

RECURSIVE substitute_adjustment(_, _)
substitute_adjustment(d, idx) ==
    IF idx >= Len(d) THEN d
    ELSE IF is_sunday(d[idx + 1])
    THEN LET e == run_end(d, idx, d[idx + 1].date)
             s == free_date(d, next_day(e[2]))
         IN  substitute_adjustment(Append(d, substitute_for(d[e[1] + 1], s)),
                                   next_index(e[1]))
    ELSE substitute_adjustment(d, next_index(idx))

----------------------------------------------------------------------------
(* m.sort_by(|a, b| a.date.cmp(&b.date)): a stable sort by date            *)

RECURSIVE insert_by_date(_, _)
insert_by_date(sorted, h) ==
    IF sorted = <<>> THEN <<h>>
    ELSE IF sorted[Len(sorted)].date <= h.date THEN Append(sorted, h)
    ELSE Append(insert_by_date(SubSeq(sorted, 1, Len(sorted) - 1), h),
                sorted[Len(sorted)])

RECURSIVE sort_from(_, _, _)
sort_from(m, k, sorted) ==
    IF k > Len(m) THEN sorted ELSE sort_from(m, k + 1, insert_by_date(sorted, m[k]))

\* a mutant of sort_by: the list left as the adjustment returned it
sort_by_omitted(m) == m

sort_by(m) == sort_from(m, 1, <<>>)

----------------------------------------------------------------------------
(* The inputs of the calls.                                                *)

FirstYear == 2017

Years == FirstYear .. FirstYear + YearSpan

RelYears == FirstYear .. FirstYear + RelYearSpan

\* 2024-02-10, a Saturday: the first day of the window
WindowStart == from_ymd(2024, 2, 10)

WindowDates == WindowStart .. WindowStart + WindowDays - 1

RECURSIVE ascending(_)
ascending(S) ==
    IF S = {} THEN <<>>
    ELSE LET lo == CHOOSE x \in S : \A y \in S : x <= y
         IN  <<lo>> \o ascending(S \ {lo})

reversed(list) == [k \in 1 .. Len(list) |-> list[Len(list) + 1 - k]]

\* the first date moved to the end, as the equinox days are in holiday
rotated(list) == IF list = <<>> THEN <<>> ELSE Tail(list) \o <<Head(list)>>

\* the lists of dates substitute_adjustment is called on: every set of
\* dates of the window in ascending order, in descending order and in
\* ascending order with the first date moved to the end, and every list of
\* at most MaxLen dates of the window
DateLists ==
    {ascending(S) : S \in SUBSET WindowDates}
        \cup {reversed(ascending(S)) : S \in SUBSET WindowDates}
        \cup {rotated(ascending(S)) : S \in SUBSET WindowDates}
        \cup UNION {[1 .. n -> WindowDates] : n \in 0 .. MaxLen}

\* the k-th entry of a list is a holiday of its own name
EntriesOf(dates) ==
    [k \in 1 .. Len(dates) |-> Holiday(<<"h", ToString(k)>>, dates[k], FALSE)]

NoCall == [year |-> 0, month |-> "", n |-> 0, weekday |-> "", out |-> Panic]

----------------------------------------------------------------------------
(* The state machine.                                                      *)

Init ==
    /\ pc = "idle"
    /\ call = "none"
    /\ tz \in Zones
    /\ year = 0
    /\ data = <<>>
    /\ i = 0
    /\ last_holiday_date = 0
    /\ sub_date = 0
    /\ input = <<>>
    /\ trigger = -1
    /\ rel = NoCall

\* holiday(format, year), line 75: let mut m = prepara(year)
CallHoliday ==
    /\ pc = "idle"
    /\ \E y \in Years :
        /\ year' = y
        /\ call' = "holiday"
        /\ LET p == prepara(tz, y)
           IN  IF p.kind = "panic"
               THEN pc' = "panic" /\ data' = <<>>
               ELSE pc' = "pick" /\ data' = p.days
    /\ UNCHANGED <<tz, i, last_holiday_date, sub_date, input, trigger, rel>>

\* holiday, lines 76-78: m.extend(pick_exuinox_from_year(year)), and the
\* call of substitute_adjustment(&mut m), which starts with i = 0
PickEquinox ==
    /\ pc = "pick"
    /\ data' = data \o pick_exuinox_from_year(year)
    /\ input' = data'
    /\ i' = 0
    /\ pc' = "outer"
    /\ UNCHANGED <<call, tz, year, last_holiday_date, sub_date, trigger, rel>>

\* substitute_adjustment called alone, on a list of the window
CallAdjust ==
    /\ pc = "idle"
    /\ \E dates \in DateLists :
        /\ data' = EntriesOf(dates)
        /\ input' = data'
    /\ call' = "adjust"
    /\ i' = 0
    /\ pc' = "outer"
    /\ UNCHANGED <<tz, year, last_holiday_date, sub_date, trigger, rel>>

\* lines 108-111: data[i] is a Sunday
OuterSunday ==
    /\ pc = "outer"
    /\ i < Len(data)
    /\ is_sunday(data[i + 1])
    /\ last_holiday_date' = data[i + 1].date
    /\ trigger' = i
    /\ pc' = "run"
    /\ UNCHANGED <<call, tz, year, data, i, sub_date, input, rel>>

\* lines 108-110, 131: data[i] is no Sunday
OuterSkip ==
    /\ pc = "outer"
    /\ i < Len(data)
    /\ ~is_sunday(data[i + 1])
    /\ i' = next_index(i)
    /\ UNCHANGED <<pc, call, tz, year, data, last_holiday_date, sub_date, input, trigger, rel>>

\* line 108: i has reached data.len(); the function returns
OuterExit ==
    /\ pc = "outer"
    /\ i >= Len(data)
    /\ pc' = IF call = "holiday" THEN "sort" ELSE "done"
    /\ UNCHANGED <<call, tz, year, data, i, last_holiday_date, sub_date, input, trigger, rel>>

\* lines 112-115: the next entry is the day after; the run goes on
RunAdvance ==
    /\ pc = "run"
    /\ run_continues(data, i, last_holiday_date)
    /\ i' = i + 1
    /\ last_holiday_date' = data[i + 2].date
    /\ UNCHANGED <<pc, call, tz, year, data, sub_date, input, trigger, rel>>

\* lines 116-120: the run ends; the substitute's date starts the day after
RunBreak ==
    /\ pc = "run"
    /\ ~run_continues(data, i, last_holiday_date)
    /\ sub_date' = next_day(last_holiday_date)
    /\ pc' = "collide"
    /\ UNCHANGED <<call, tz, year, data, i, last_holiday_date, input, trigger, rel>>

\* lines 121-122: the date is taken; try the next day
CollideAdvance ==
    /\ pc = "collide"
    /\ occupied(data, sub_date)
    /\ sub_date' = next_day(sub_date)
    /\ UNCHANGED <<pc, call, tz, year, data, i, last_holiday_date, input, trigger, rel>>

\* lines 121, 125-131: the date is free; push the substitute, move on
PushSubstitute ==
    /\ pc = "collide"
    /\ ~occupied(data, sub_date)
    /\ data' = Append(data, substitute_for(data[i + 1], sub_date))
    /\ i' = next_index(i)
    /\ pc' = "outer"
    /\ UNCHANGED <<call, tz, year, last_holiday_date, sub_date, input, trigger, rel>>

\* holiday, line 81: m.sort_by(...); the list is then serialized
SortResult ==
    /\ pc = "sort"
    /\ data' = sort_by(data)
    /\ pc' = "done"
    /\ UNCHANGED <<call, tz, year, i, last_holiday_date, sub_date, input, trigger, rel>>

\* get_relative_date called alone
CallRelative ==
    /\ pc = "idle"
    /\ \E y \in RelYears, m \in 1 .. 12, w \in Weekdays, n \in 0 .. MaxOccurrence :
        rel' = [year |-> y, month |-> Months[m], n |-> n, weekday |-> w,
                out |-> get_relative_date(tz, y, [month |-> Months[m], n |-> n, weekday |-> w])]
    /\ call' = "relative"
    /\ pc' = "done"
    /\ UNCHANGED <<tz, year, data, i, last_holiday_date, sub_date, input, trigger>>

\* a step of substitute_adjustment
AdjustStep ==
    \/ OuterSunday
    \/ OuterSkip
    \/ OuterExit
    \/ RunAdvance
    \/ RunBreak
    \/ CollideAdvance
    \/ PushSubstitute

Next ==
    \/ CallHoliday
    \/ PickEquinox
    \/ CallAdjust
    \/ AdjustStep
    \/ SortResult
    \/ CallRelative

Spec == Init /\ [][Next]_vars

\* substitute_adjustment, once called, runs on: the program is one thread
\* and nothing suspends it
FairSpec == Spec /\ WF_vars(AdjustStep)

TypeOK ==
    /\ pc \in {"idle", "pick", "outer", "run", "collide", "sort", "done", "panic"}
    /\ call \in {"none", "holiday", "adjust", "relative"}
    /\ i \in 0 .. Len(data)
    /\ Len(input) <= Len(data)
    /\ \A k \in 1 .. Len(input) : pc # "done" => data[k] = input[k]
    \* the steps leave the list the function as a whole leaves
    /\ (call = "adjust" /\ pc = "done") => data = substitute_adjustment(input, 0)
    /\ (call = "holiday" /\ pc = "sort") => data = substitute_adjustment(input, 0)

----------------------------------------------------------------------------
(* What the claims speak of.                                               *)

\* holiday has returned its list
HolidayDone == call = "holiday" /\ pc = "done"

\* substitute_adjustment has returned
AdjustReturned == call \in {"holiday", "adjust"} /\ pc \in {"sort", "done"}

DatesOf(list) == {list[k].date : k \in 1 .. Len(list)}

\* the last day of the run of consecutive dates of S that starts at s
RECURSIVE BlockEnd(_, _)
BlockEnd(S, s) == IF s + 1 \in S THEN BlockEnd(S, s + 1) ELSE s

IsAscending(list) == \A k \in 1 .. Len(list) - 1 : list[k].date <= list[k + 1].date

SubstituteName(name) == <<"FurikaeKyujitsu">> \o name

MonthOf(name) == CHOOSE k \in 1 .. 12 : Months[k] = name

WeekdayNumber(w) ==
    CHOOSE k \in 0 .. 6 : <<"sun", "mon", "tue", "wed", "thu", "fri", "sat">>[k + 1] = w

\* the days of month m of year y whose weekday is w
DaysWithWeekday(y, m, w) ==
    {d \in 1 .. DaysInMonth(y, m) : from_ymd(y, m, d) % 7 = WeekdayNumber(w)}

RelativeDone == call = "relative" /\ pc = "done"

----------------------------------------------------------------------------
\* C1: for every year, the list holiday returns is sorted strictly
\* ascending by date: each entry's date is less than the next entry's, so
\* no two entries, regular or substitute, share a date.
C1_StrictlyAscending ==
    HolidayDone =>
        \A k \in 1 .. Len(data) - 1 : data[k].date < data[k + 1].date

\* a supported year whose list came unsorted out of the adjustment, with
\* substitutes in it
C1_Witness ==
    /\ HolidayDone
    /\ year \in 2020 .. 2050
    /\ ~IsAscending(input)
    /\ \E k \in 1 .. Len(data) - 1 : data[k].substitute

----------------------------------------------------------------------------
\* C2: when substitute_adjustment has returned, every non-substitute holiday
\* of the list it was given whose date is a Sunday has an entry with
\* substitute = TRUE on the first day after the Sunday's block of
\* consecutive holiday dates, the first day no holiday of the list
\* occupies; this whatever the order of the list.
C2_SundayHasSubstitute ==
    AdjustReturned =>
        \A k \in 1 .. Len(input) :
            (~input[k].substitute /\ input[k].date % 7 = 0) =>
                \E j \in 1 .. Len(data) :
                    /\ data[j].substitute
                    /\ data[j].date = BlockEnd(DatesOf(input), input[k].date) + 1

\* a list out of order: a Sunday whose block goes on with a holiday that is
\* not the next entry of the list
C2_Witness ==
    /\ call = "adjust" /\ pc = "done"
    /\ \E k \in 1 .. Len(input) :
        /\ input[k].date % 7 = 0
        /\ input[k].date + 1 \in DatesOf(input)
        /\ (k = Len(input) \/ input[k + 1].date # input[k].date + 1)

----------------------------------------------------------------------------
\* C3: the list holiday returns holds exactly two equinox holidays, the
\* spring and the autumn one on the days the equinox table gives for the
\* year, when 2020 <= year <= 2050, and no equinox holiday for another
\* year, which is no error.
EquinoxNames == {<<"ShunbunNoHi">>, <<"ShubunNoHi">>}

TableDate(y, col) ==
    LET row == CHOOSE r \in {BASE_EQUINOX[k] : k \in 1 .. Len(BASE_EQUINOX)} : r[1] = y
    IN  DaysBeforeYear(y) + DaysBeforeMonth(y, row[col][1]) + row[col][2]

C3_EquinoxHolidays ==
    /\ call = "holiday" => pc # "panic"
    /\ HolidayDone =>
        LET eq == {k \in 1 .. Len(data) : data[k].name \in EquinoxNames}
        IN  IF 2020 <= year /\ year <= 2050
            THEN /\ Cardinality(eq) = 2
                 /\ \E k \in eq : /\ data[k].name = <<"ShunbunNoHi">>
                                  /\ data[k].date = TableDate(year, 2)
                                  /\ ~data[k].substitute
                 /\ \E k \in eq : /\ data[k].name = <<"ShubunNoHi">>
                                  /\ data[k].date = TableDate(year, 3)
                                  /\ ~data[k].substitute
            ELSE eq = {}

\* the first year of the range, with its two equinox days
C3_Witness ==
    /\ HolidayDone
    /\ year = 2020
    /\ Cardinality({k \in 1 .. Len(data) : data[k].name \in EquinoxNames}) = 2

----------------------------------------------------------------------------
\* C4: for 2024 holiday returns exactly 21 entries in ascending date order,
\* the first Gantan on 2024-01-01, the last KinroKanshaNoHi on 2024-11-23,
\* and each of the five Sunday holidays (02-11, 05-05, 08-11, 09-22, 11-03)
\* is immediately followed by a substitute entry on the next day, named
\* after that holiday.
Sundays2024 == {<<2, 11>>, <<5, 5>>, <<8, 11>>, <<9, 22>>, <<11, 3>>}

Date2024(m, d) == DaysBeforeYear(2024) + DaysBeforeMonth(2024, m) + d

C4_Year2024 ==
    (HolidayDone /\ year = 2024) =>
        /\ Len(data) = 21
        /\ \A k \in 1 .. 20 : data[k].date < data[k + 1].date
        /\ data[1] = [name |-> <<"Gantan">>, date |-> Date2024(1, 1), substitute |-> FALSE]
        /\ data[21] = [name |-> <<"KinroKanshaNoHi">>, date |-> Date2024(11, 23),
                       substitute |-> FALSE]
        /\ \A s \in Sundays2024 :
            \E k \in 1 .. 20 :
                /\ data[k].date = Date2024(s[1], s[2])
                /\ ~data[k].substitute
                /\ data[k].date % 7 = 0
                /\ data[k + 1] = [name |-> SubstituteName(data[k].name),
                                  date |-> data[k].date + 1,
                                  substitute |-> TRUE]
        /\ Cardinality({k \in 1 .. 21 : data[k].substitute}) = 5

C4_Witness ==
    /\ HolidayDone
    /\ year = 2024
    /\ Len(data) = 21
    /\ data[17].name = <<"FurikaeKyujitsu", "ShubunNoHi">>

----------------------------------------------------------------------------
\* C5: when the occurrence n of a relative rule exceeds the number of days
\* of the requested weekday in the requested month, the resolution fails
\* with an error value (a ResolutionError the caller receives): it returns
\* no date and does not abort the computation.
C5_ExcessOccurrenceIsError ==
    (RelativeDone
        /\ rel.n > Cardinality(DaysWithWeekday(rel.year, MonthOf(rel.month), rel.weekday)))
    => rel.out.kind = "err"

----------------------------------------------------------------------------
\* C6: for every year, month, weekday and occurrence n with 1 <= n <= the
\* number of days of that weekday in the month, get_relative_date returns
\* the date of that month and weekday that has exactly n - 1 earlier dates
\* of the same weekday in the month, so one of the days 7(n-1)+1 .. 7n.
C6_NthWeekday ==
    (RelativeDone
        /\ 1 <= rel.n
        /\ rel.n <= Cardinality(DaysWithWeekday(rel.year, MonthOf(rel.month), rel.weekday)))
    => /\ rel.out.kind = "some"
       /\ rel.out.month = MonthOf(rel.month)
       /\ rel.out.day \in DaysWithWeekday(rel.year, MonthOf(rel.month), rel.weekday)
       /\ Cardinality({d \in DaysWithWeekday(rel.year, MonthOf(rel.month), rel.weekday) :
                          d < rel.out.day}) = rel.n - 1
       /\ rel.out.day \in 7 * (rel.n - 1) + 1 .. 7 * rel.n

\* in a zone whose clock is never moved the same statement holds
C6_InZoneWithoutTransition == tz = "Asia/Tokyo" => C6_NthWeekday

----------------------------------------------------------------------------
\* C7: every substitute entry substitute_adjustment creates has
\* substitute = TRUE and carries the name of the last holiday of the block
\* it follows: the holiday of the latest date in the run of consecutive
\* holiday dates that starts at the triggering Sunday.
C7_NamedAfterLastOfBlock ==
    [][(pc = "collide" /\ Len(data') = Len(data) + 1) =>
          LET new == data'[Len(data')]
              e   == BlockEnd(DatesOf(data), data[trigger + 1].date)
          IN  /\ new.substitute
              /\ \E k \in 1 .. Len(data) :
                    data[k].date = e /\ new.name = SubstituteName(data[k].name)]_vars

----------------------------------------------------------------------------
\* C8: substitute_adjustment makes a single pass over the entries the list
\* had when it was called: an entry it appended is never taken as a Sunday
\* holiday, so no substitute is created for a substitute.
C8_SinglePass ==
    /\ trigger < Len(input)
    /\ \A k \in 1 .. Len(data) :
        ~(Len(data[k].name) >= 2 /\ data[k].name[1] = "FurikaeKyujitsu"
                                 /\ data[k].name[2] = "FurikaeKyujitsu")

----------------------------------------------------------------------------
\* C9: for every year of 2020..2050 the list holiday returns, adjusted in
\* the order of the rule table with the two equinox days appended and
\* sorted afterwards, is the list obtained by sorting by date first and
\* adjusting then: the same names, dates and flags in the same order.
RECURSIVE SortedFirst(_)
SortedFirst(list) ==
    IF list = <<>> THEN <<>>
    ELSE LET k == CHOOSE j \in 1 .. Len(list) :
                      /\ \A l \in 1 .. Len(list) : list[j].date <= list[l].date
                      /\ \A l \in 1 .. j - 1 : list[l].date # list[j].date
         IN  <<list[k]>> \o SortedFirst(SubSeq(list, 1, k - 1) \o SubSeq(list, k + 1, Len(list)))

C9_SortBeforeOrAfter ==
    (HolidayDone /\ year \in 2020 .. 2050) =>
        data = SortedFirst(substitute_adjustment(SortedFirst(input), 0))

\* a year whose autumn equinox, appended after the last rule, is a Sunday
C9_Witness ==
    /\ HolidayDone
    /\ year \in 2020 .. 2050
    /\ ~IsAscending(input)
    /\ input[Len(input)].date % 7 = 0
    /\ \E k \in 1 .. Len(data) : data[k].name = <<"FurikaeKyujitsu", "ShubunNoHi">>

----------------------------------------------------------------------------
\* C10: for every list, substitute_adjustment terminates: the loop that
\* moves the substitute's date on day by day stops at a free date, and the
\* outer scan, whose bound is the length read again on every iteration
\* while entries are appended, reaches the end of the list.
C10_Terminates == (pc \in {"outer", "run", "collide"}) ~> AdjustReturned

\* a call that returned after looking at an entry it had appended itself
C10_Witness ==
    /\ call = "adjust" /\ pc = "done"
    /\ Len(data) > Len(input) + 1
    /\ trigger >= Len(input)

====
